---- MODULE Spec2Model ----
(***************************************************************************)
(* Model of the scan-and-reconcile engine of Python-Media-Scanner:         *)
(*   compare.py  _normalize_name, _index_items, Compare._normalize_item,   *)
(*               Compare._items_match, Compare._compare_lists              *)
(*   scanner.py  Scanner.scan_folder, Scanner._categorize_by_ext,          *)
(*               Scanner._fmt_duration, get_duration                       *)
(*                                                                         *)
(* Python strings are sequences of one-character strings, so that          *)
(* lower-casing, substring replacement, splitting and ordering are         *)
(* computed as the code computes them.                                     *)
(***************************************************************************)
EXTENDS Integers, Sequences, FiniteSets, TLC

(***************************************************************************)
(* Bounds of the model                                                     *)
(***************************************************************************)
\* longest item list given to one side of the comparator
MaxItems == 3
\* largest number of files under a scanned root
MaxFiles == 3

(***************************************************************************)
(* Python str primitives                                                   *)
(***************************************************************************)
\* the characters of the model's strings, by code point
Digits  == << "0", "1", "2", "3", "4", "5", "6", "7", "8", "9" >>
Uppers  == << "A", "B", "C", "D", "E", "F", "G", "H", "I", "J", "K", "L", "M",
              "N", "O", "P", "Q", "R", "S", "T", "U", "V", "W", "X", "Y", "Z" >>
Lowers  == << "a", "b", "c", "d", "e", "f", "g", "h", "i", "j", "k", "l", "m",
              "n", "o", "p", "q", "r", "s", "t", "u", "v", "w", "x", "y", "z" >>
Puncts  == {"\t", "\n", " ", ",", "-", ".", "/", ":", "[", "]", "_"}

SeqRange(q) == {q[i] : i \in 1..Len(q)}
IndexOf(q, c) == CHOOSE i \in 1..Len(q) : q[i] = c

Chars == SeqRange(Digits) \cup SeqRange(Uppers) \cup SeqRange(Lowers) \cup Puncts

\* ord(c)
Ord == [c \in Chars |->
          IF c \in SeqRange(Digits) THEN 47 + IndexOf(Digits, c)
          ELSE IF c \in SeqRange(Uppers) THEN 64 + IndexOf(Uppers, c)
          ELSE IF c \in SeqRange(Lowers) THEN 96 + IndexOf(Lowers, c)
          ELSE IF c = "\t" THEN 9
          ELSE IF c = "\n" THEN 10
          ELSE IF c = " " THEN 32
          ELSE IF c = "," THEN 44
          ELSE IF c = "-" THEN 45
          ELSE IF c = "." THEN 46
          ELSE IF c = "/" THEN 47
          ELSE IF c = ":" THEN 58
          ELSE IF c = "[" THEN 91
          ELSE IF c = "]" THEN 93
          ELSE 95]

\* c.lower() for one character
LowerChar == [c \in Chars |-> IF c \in SeqRange(Uppers)
                              THEN Lowers[IndexOf(Uppers, c)] ELSE c]

\* str.lower()
StrLower(s) == [i \in 1..Len(s) |-> LowerChar[s[i]]]

\* str.replace(old, new): leftmost non-overlapping occurrences, old non-empty
RECURSIVE StrReplace(_, _, _)
StrReplace(s, old, new) ==
  IF Len(s) < Len(old) THEN s
  ELSE IF SubSeq(s, 1, Len(old)) = old
       THEN new \o StrReplace(SubSeq(s, Len(old) + 1, Len(s)), old, new)
       ELSE <<s[1]>> \o StrReplace(Tail(s), old, new)

IsSpace(c) == c \in {" ", "\t", "\n"}

\* str.split() with no argument: the maximal runs of non-whitespace
RECURSIVE StrSplit(_, _)
StrSplit(s, cur) ==
  IF s = <<>> THEN (IF cur = <<>> THEN <<>> ELSE <<cur>>)
  ELSE IF IsSpace(s[1])
       THEN (IF cur = <<>> THEN <<>> ELSE <<cur>>) \o StrSplit(Tail(s), <<>>)
       ELSE StrSplit(Tail(s), Append(cur, s[1]))

\* sep.join(words)
RECURSIVE StrJoin(_, _)
StrJoin(sep, words) ==
  IF words = <<>> THEN <<>>
  ELSE IF Len(words) = 1 THEN words[1]
       ELSE words[1] \o sep \o StrJoin(sep, Tail(words))

\* s < t for Python strings: lexicographic by code point
RECURSIVE StrLess(_, _)
StrLess(s, t) ==
  IF t = <<>> THEN FALSE
  ELSE IF s = <<>> THEN TRUE
       ELSE IF s[1] = t[1] THEN StrLess(Tail(s), Tail(t))
            ELSE Ord[s[1]] < Ord[t[1]]

(***************************************************************************)
(* compare.py: _normalize_name                                             *)
(***************************************************************************)
\* the list with 'hd' moved to the front
res_markersHdFirst ==
  << <<"h","d">>, <<"7","2","0","p">>, <<"1","0","8","0","p">>,
     <<"2","1","6","0","p">>, <<"4","k">>, <<"u","h","d">>, <<"4","8","0","p">>,
     <<"h","d","t","v">>, <<"f","u","l","l","h","d">> >>

res_markers ==
  << <<"7","2","0","p">>, <<"1","0","8","0","p">>, <<"2","1","6","0","p">>,
     <<"4","k">>, <<"u","h","d">>, <<"4","8","0","p">>, <<"h","d","t","v">>,
     <<"f","u","l","l","h","d">>, <<"h","d">> >>

RECURSIVE RemoveMarkers(_, _)
RemoveMarkers(name, i) ==
  IF i > Len(res_markers) THEN name
  ELSE RemoveMarkers(StrReplace(name, res_markers[i], <<>>), i + 1)

_normalize_name(name) ==
  LET stripped == RemoveMarkers(StrLower(name), 1)
      cleaned  == StrReplace(StrReplace(StrReplace(stripped, <<".">>, <<" ">>),
                                        <<"[">>, <<" ">>), <<"]">>, <<" ">>)
  IN  StrJoin(<<" ">>, StrSplit(cleaned, <<>>))

(***************************************************************************)
(* Values of the comparator's records                                      *)
(*                                                                         *)
(* A raw record is what a scan or a loaded snapshot hands to               *)
(* _compare_lists.  A text field holds its string, with <<>> for a key     *)
(* that is missing, None or "" (the code reads them with `get(..) or`,     *)
(* which cannot tell these apart).  A size field is tagged, because the    *)
(* code tests the key's presence and the value's type.                     *)
(***************************************************************************)
Absent     == [t |-> "absent", n |-> 0, s |-> <<>>]
PyNone     == [t |-> "none",   n |-> 0, s |-> <<>>]
PyInt(n)   == [t |-> "int",    n |-> n, s |-> <<>>]
PyStr(s)   == [t |-> "str",    n |-> 0, s |-> s]

\* str(n) for an integer
RECURSIVE StrOfNat(_)
StrOfNat(n) ==
  IF n < 10 THEN <<Digits[n + 1]>>
  ELSE StrOfNat(n \div 10) \o <<Digits[(n % 10) + 1]>>

StrOfInt(n) == IF n < 0 THEN <<"-">> \o StrOfNat(0 - n) ELSE StrOfNat(n)

\* str.strip()
RECURSIVE LStrip(_)
LStrip(s) == IF s # <<>> /\ IsSpace(s[1]) THEN LStrip(Tail(s)) ELSE s

RECURSIVE RStrip(_)
RStrip(s) ==
  IF s # <<>> /\ IsSpace(s[Len(s)]) THEN RStrip(SubSeq(s, 1, Len(s) - 1)) ELSE s

StrStrip(s) == RStrip(LStrip(s))

\* the value of a run of decimal digits and single inner underscores
RECURSIVE DigitsValue(_, _)
DigitsValue(s, acc) ==
  IF s = <<>> THEN acc
  ELSE IF s[1] = "_" THEN DigitsValue(Tail(s), acc)
       ELSE DigitsValue(Tail(s), 10 * acc + (IndexOf(Digits, s[1]) - 1))

IsIntBody(b) ==
  /\ b # <<>>
  /\ \A i \in 1..Len(b) : b[i] \in SeqRange(Digits) \cup {"_"}
  /\ b[1] # "_" /\ b[Len(b)] # "_"
  /\ \A i \in 1..(Len(b) - 1) : ~(b[i] = "_" /\ b[i + 1] = "_")

\* int(s) for a string: [ok |-> FALSE] stands for ValueError
IntOfStr(s) ==
  LET t    == StrStrip(s)
      neg  == t # <<>> /\ t[1] = "-"
      body == IF t # <<>> /\ t[1] \in {"-", "+"} THEN Tail(t) ELSE t
  IN  IF IsIntBody(body)
      THEN [ok |-> TRUE, n |-> IF neg THEN 0 - DigitsValue(body, 0)
                                      ELSE DigitsValue(body, 0)]
      ELSE [ok |-> FALSE, n |-> 0]

\* a or b, for text fields
OrStr(a, b) == IF a # <<>> THEN a ELSE b

(***************************************************************************)
(* compare.py: Compare._normalize_item                                     *)
(* (path, ext and duration_display are carried by the code's record but    *)
(* read by no step of the comparison; the model leaves them out)           *)
(***************************************************************************)
_normalize_item(item) ==
  LET raw_size == IF item.Size.t # "absent" THEN item.Size
                  ELSE IF item.size.t # "absent" THEN item.size
                  ELSE PyNone
      size_val == IF raw_size.t = "int" THEN PyInt(raw_size.n)
                  ELSE IF raw_size.t = "str" /\ IntOfStr(raw_size.s).ok
                       THEN PyInt(IntOfStr(raw_size.s).n)
                       ELSE PyNone
      size_display ==
        OrStr(item.Size_Display,
              OrStr(item.size_display,
                    IF size_val.t = "int" THEN StrOfInt(size_val.n) ELSE <<>>))
  IN  [ name         |-> OrStr(item.Name, item.name),
        size         |-> size_val,
        size_display |-> size_display,
        category     |-> IF item.Category # "" THEN item.Category
                         ELSE IF item.category # "" THEN item.category
                         ELSE "Other" ]

NormalizeAll(items) == [i \in 1..Len(items) |-> _normalize_item(items[i])]

(***************************************************************************)
(* compare.py: _index_items                                                *)
(***************************************************************************)
\* dict.setdefault(key, []).append(it)
SetDefaultAppend(idx, key, it) ==
  [k \in DOMAIN idx \cup {key} |->
     IF k = key THEN (IF key \in DOMAIN idx THEN Append(idx[key], it) ELSE <<it>>)
     ELSE idx[k]]

RECURSIVE IndexLoop(_, _)
IndexLoop(items, idx) ==
  IF items = <<>> THEN idx
  ELSE IF items[1].name = <<>> THEN IndexLoop(Tail(items), idx)
       ELSE IndexLoop(Tail(items),
                      SetDefaultAppend(idx, _normalize_name(items[1].name), items[1]))

_index_items(items) == IndexLoop(items, <<>>)

(***************************************************************************)
(* compare.py: Compare._items_match (defined by the class, called nowhere) *)
(***************************************************************************)
DispNorm(d) == StrReplace(StrReplace(StrLower(d), <<" ">>, <<>>), <<",">>, <<>>)

_items_match(l, r) ==
  IF l.size.t = "int" /\ r.size.t = "int" THEN l.size.n = r.size.n
  ELSE IF DispNorm(l.size_display) # <<>> /\ DispNorm(r.size_display) # <<>>
       THEN DispNorm(l.size_display) = DispNorm(r.size_display)
       ELSE _normalize_name(l.name) = _normalize_name(r.name)

(***************************************************************************)
(* compare.py: Compare._compare_lists                                      *)
(***************************************************************************)
\* sorted(keys) with the order reversed
RECURSIVE SortedKeysDescending(_)
SortedKeysDescending(keys) ==
  IF keys = {} THEN <<>>
  ELSE LET m == CHOOSE k \in keys : \A j \in keys \ {k} : StrLess(j, k)
       IN  <<m>> \o SortedKeysDescending(keys \ {m})

\* sorted(keys)
RECURSIVE SortedKeys(_)
SortedKeys(keys) ==
  IF keys = {} THEN <<>>
  ELSE LET m == CHOOSE k \in keys : \A j \in keys \ {k} : StrLess(k, j)
       IN  <<m>> \o SortedKeys(keys \ {m})

\* item.get("size_display") or item.get("size", "")
DisplayOrSize(it) ==
  IF it.size_display # <<>> THEN PyStr(it.size_display) ELSE it.size

\* a status that takes only equal numeric sizes for a match
BothStatusStrict(left_item, right_item) ==
  IF left_item.size.t = "int" /\ right_item.size.t = "int"
     /\ left_item.size.n = right_item.size.n
  THEN "both_same" ELSE "both_differ"

\* lines 229-230: the status of a key present on both sides
BothStatus(left_item, right_item) == "both_same"

\* the one-sided branches exchanged
ResultEntrySwapped(k, li, ri) ==
  IF k \in DOMAIN li /\ k \in DOMAIN ri
  THEN [ file       |-> k,
         category   |-> li[k][1].category,
         status     |-> BothStatus(li[k][1], ri[k][1]),
         left_size  |-> PyStr(li[k][1].size_display),
         right_size |-> PyStr(ri[k][1].size_display) ]
  ELSE IF k \in DOMAIN ri
  THEN [ file       |-> k,
         category   |-> ri[k][1].category,
         status     |-> "only_left",
         left_size  |-> DisplayOrSize(ri[k][1]),
         right_size |-> PyStr(<<>>) ]
  ELSE [ file       |-> k,
         category   |-> li[k][1].category,
         status     |-> "only_right",
         left_size  |-> PyStr(<<>>),
         right_size |-> DisplayOrSize(li[k][1]) ]

\* the only_left branch shows the display string and never the size
ResultEntryLeftDisplayOnly(k, li, ri) ==
  IF k \in DOMAIN li /\ k \in DOMAIN ri
  THEN [ file       |-> k,
         category   |-> li[k][1].category,
         status     |-> BothStatus(li[k][1], ri[k][1]),
         left_size  |-> PyStr(li[k][1].size_display),
         right_size |-> PyStr(ri[k][1].size_display) ]
  ELSE IF k \in DOMAIN li
  THEN [ file       |-> k,
         category   |-> li[k][1].category,
         status     |-> "only_left",
         left_size  |-> PyStr(li[k][1].size_display),
         right_size |-> PyStr(<<>>) ]
  ELSE [ file       |-> k,
         category   |-> ri[k][1].category,
         status     |-> "only_right",
         left_size  |-> PyStr(<<>>),
         right_size |-> DisplayOrSize(ri[k][1]) ]

\* the last record of a key taken for its representative
ResultEntryLast(k, li, ri) ==
  IF k \in DOMAIN li /\ k \in DOMAIN ri
  THEN [ file       |-> k,
         category   |-> li[k][Len(li[k])].category,
         status     |-> BothStatus(li[k][Len(li[k])], ri[k][Len(ri[k])]),
         left_size  |-> PyStr(li[k][Len(li[k])].size_display),
         right_size |-> PyStr(ri[k][Len(ri[k])].size_display) ]
  ELSE IF k \in DOMAIN li
  THEN [ file       |-> k,
         category   |-> li[k][Len(li[k])].category,
         status     |-> "only_left",
         left_size  |-> DisplayOrSize(li[k][Len(li[k])]),
         right_size |-> PyStr(<<>>) ]
  ELSE [ file       |-> k,
         category   |-> ri[k][Len(ri[k])].category,
         status     |-> "only_right",
         left_size  |-> PyStr(<<>>),
         right_size |-> DisplayOrSize(ri[k][Len(ri[k])]) ]

ResultEntry(k, li, ri) ==
  IF k \in DOMAIN li /\ k \in DOMAIN ri
  THEN [ file       |-> k,
         category   |-> li[k][1].category,
         status     |-> BothStatus(li[k][1], ri[k][1]),
         left_size  |-> PyStr(li[k][1].size_display),
         right_size |-> PyStr(ri[k][1].size_display) ]
  ELSE IF k \in DOMAIN li
  THEN [ file       |-> k,
         category   |-> li[k][1].category,
         status     |-> "only_left",
         left_size  |-> DisplayOrSize(li[k][1]),
         right_size |-> PyStr(<<>>) ]
  ELSE [ file       |-> k,
         category   |-> ri[k][1].category,
         status     |-> "only_right",
         left_size  |-> PyStr(<<>>),
         right_size |-> DisplayOrSize(ri[k][1]) ]

_compare_lists(l, r) ==
  LET li   == _index_items(NormalizeAll(l))
      ri   == _index_items(NormalizeAll(r))
      keys == SortedKeys(DOMAIN li \cup DOMAIN ri)
  IN  [i \in 1..Len(keys) |-> ResultEntry(keys[i], li, ri)]

(***************************************************************************)
(* scanner.py: extension tables and Scanner._categorize_by_ext             *)
(***************************************************************************)
VIDEO_EXTS ==
  { <<".","m","p","4">>, <<".","m","k","v">>, <<".","a","v","i">>,
    <<".","m","o","v">>, <<".","f","l","v">>, <<".","w","m","v">>,
    <<".","w","e","b","m">>, <<".","t","s">>, <<".","m","2","t","s">>,
    <<".","v","o","b">>, <<".","m","p","e","g">>, <<".","m","p","g">>,
    <<".","o","g","v">>, <<".","3","g","p">>, <<".","f","4","v">>,
    <<".","m","x","f">>, <<".","h","e","v","c">>, <<".","h","2","6","4">>,
    <<".","h","2","6","5">> }

AUDIO_EXTS ==
  { <<".","m","p","3">>, <<".","w","a","v">>, <<".","f","l","a","c">>,
    <<".","a","a","c">>, <<".","m","4","a">>, <<".","o","g","g">>,
    <<".","o","p","u","s">>, <<".","w","m","a">>, <<".","a","i","f","f">>,
    <<".","a","l","a","c">>, <<".","m","i","d">>, <<".","m","i","d","i">>,
    <<".","a","m","r">>, <<".","a","p","e">>, <<".","r","a">>, <<".","r","m">> }

IMAGE_EXTS ==
  { <<".","j","p","g">>, <<".","j","p","e","g">>, <<".","p","n","g">>,
    <<".","b","m","p">>, <<".","g","i","f">>, <<".","t","i","f","f">>,
    <<".","t","i","f">>, <<".","h","e","i","c">>, <<".","w","e","b","p">>,
    <<".","r","a","w">>, <<".","c","r","2">>, <<".","n","e","f">>,
    <<".","o","r","f">>, <<".","a","r","w">>, <<".","d","n","g">>,
    <<".","p","s","d">>, <<".","s","v","g">> }

_categorize_by_ext(ext) ==
  IF ext \in VIDEO_EXTS THEN "Videos"
  ELSE IF ext \in AUDIO_EXTS THEN "Musik"
  ELSE IF ext \in IMAGE_EXTS THEN "Fotos"
  ELSE "Other"

\* pathlib's PurePath.suffix of a file name: from the last dot on, "" when the
\* name has no dot, starts with its only dot or ends with a dot
RECURSIVE LastDot(_, _)
LastDot(name, i) ==
  IF i = 0 THEN 0 ELSE IF name[i] = "." THEN i ELSE LastDot(name, i - 1)

Suffix(name) ==
  LET i == LastDot(name, Len(name))
  IN  IF i > 1 /\ i < Len(name) THEN SubSeq(name, i, Len(name)) ELSE <<>>

(***************************************************************************)
(* scanner.py: sizeof_fmt                                                  *)
(* The value shown is num / 1024^k, exact in a double for the sizes of the *)
(* model, formatted with one decimal, ties to even.                        *)
(***************************************************************************)
SizeUnits == << <<>>, <<"K","i">>, <<"M","i">>, <<"G","i">>, <<"T","i">> >>

\* how many times the loop divides before abs(num) < 1024.0
RECURSIVE UnitIndex(_)
UnitIndex(num) == IF num < 1024 THEN 0 ELSE 1 + UnitIndex(num \div 1024)

RoundHalfEven(a, b) ==
  LET q == a \div b
      r == a % b
  IN  IF 2 * r > b \/ (2 * r = b /\ q % 2 = 1) THEN q + 1 ELSE q

sizeof_fmt(num) ==
  LET k      == UnitIndex(num)
      tenths == RoundHalfEven(10 * num, 1024 ^ k)
      shown  == StrOfNat(tenths \div 10) \o <<".">> \o StrOfNat(tenths % 10) \o <<" ">>
  IN  IF k < Len(SizeUnits) THEN shown \o SizeUnits[k + 1] \o <<"B">>
      ELSE shown \o <<"P","i","B">>

(***************************************************************************)
(* scanner.py: get_duration and Scanner._fmt_duration                      *)
(* A duration is None, a number of seconds, or the float nan that          *)
(* float() makes of the probe's output "nan".                              *)
(***************************************************************************)
DurNone   == [t |-> "none", n |-> 0]
DurNum(n) == [t |-> "num",  n |-> n]
DurNaN    == [t |-> "nan",  n |-> 0]

\* `if d:` for a duration
Truthy(d) == d.t = "nan" \/ (d.t = "num" /\ d.n # 0)

\* what one strategy can hand back: nothing, zero, a length, nan
StrategyResults == {DurNone, DurNum(0), DurNum(75), DurNaN}

get_duration(ffprobe, mediainfo, mutagen) ==
  IF Truthy(ffprobe) THEN ffprobe
  ELSE IF Truthy(mediainfo) THEN mediainfo
  ELSE IF Truthy(mutagen) THEN mutagen
  ELSE DurNone

ProbeResults ==
  {get_duration(a, b, c) : a \in StrategyResults, b \in StrategyResults,
                           c \in StrategyResults}

TwoDigits(n) == IF n < 10 THEN <<"0">> \o StrOfNat(n) ELSE StrOfNat(n)

\* [ok |-> FALSE] stands for the ValueError of int(nan)
_fmt_duration(seconds) ==
  IF ~Truthy(seconds) THEN [ok |-> TRUE, s |-> <<"N","/","A">>]
  ELSE IF seconds.t = "nan" THEN [ok |-> FALSE, s |-> <<>>]
  ELSE LET sec     == seconds.n % 60
           minutes == (seconds.n \div 60) % 60
           hours   == (seconds.n \div 60) \div 60
       IN  IF hours # 0
           THEN [ok |-> TRUE, s |-> StrOfNat(hours) \o <<":">> \o TwoDigits(minutes)
                                      \o <<":">> \o TwoDigits(sec)]
           ELSE [ok |-> TRUE, s |-> TwoDigits(minutes) \o <<":">> \o TwoDigits(sec)]

(***************************************************************************)
(* State                                                                   *)
(***************************************************************************)
VARIABLES
  left,          \* comparator: the left collection of raw records
  right,         \* comparator: the right collection of raw records
  results,       \* comparator: the list returned by the last _compare_lists
  cmp_pc,        \* comparator: "ready" before the call, "done" after it
  files,         \* scanner: all_files, the enumerated files of the root
  include_hash,  \* scanner: Scanner.include_hash
  has_callback,  \* scanner: whether update_callback was supplied
  scan_pc,       \* scanner: "start", "loop", "returned"
  count,         \* scanner: the loop counter of scan_folder
  items,         \* scanner: the list of records built so far
  outcomes,      \* scanner: per processed file, what its processing did
  calls,         \* scanner: the (progress, path) calls made to update_callback
  returned,      \* scanner: the list scan_folder returned
  probe,         \* one call of get_duration: its position, strategies, result
  load,          \* one call of Compare._load_scanfile: the file and the result
  entry,         \* one call of compare_folders / compare_scanfile_vs_folder
  keyed,         \* one pair of calls of _normalize_name
  sort,          \* one call of Scanner.sort_items
  norm,          \* one call of Compare._normalize_item
  workers,       \* two scan_folder calls running in separate threads
  tab            \* one scan started from a media tab: worker and main thread

vars == << left, right, results, cmp_pc, files, include_hash,
           has_callback, scan_pc, count, items, outcomes, calls, returned,
           probe, load, entry, keyed, sort, norm, workers, tab >>

cmp_vars  == << left, right, results, cmp_pc >>
scan_vars == << files, include_hash, has_callback, scan_pc, count, items,
                outcomes, calls, returned >>

\* what each operation leaves alone
not_cmp     == << scan_vars, probe, load, entry, keyed, sort, norm, workers, tab >>
not_scan    == << cmp_vars, probe, load, entry, keyed, sort, norm, workers, tab >>
not_probe   == << cmp_vars, scan_vars, load, entry, keyed, sort, norm, workers, tab >>
not_load    == << cmp_vars, scan_vars, probe, entry, keyed, sort, norm, workers, tab >>
not_entry   == << cmp_vars, scan_vars, probe, load, keyed, sort, norm, workers, tab >>
not_keyed   == << cmp_vars, scan_vars, probe, load, entry, sort, norm, workers, tab >>
not_sort    == << cmp_vars, scan_vars, probe, load, entry, keyed, norm, workers, tab >>
not_norm    == << cmp_vars, scan_vars, probe, load, entry, keyed, sort, workers, tab >>
not_workers == << cmp_vars, scan_vars, probe, load, entry, keyed, sort, norm, tab >>
not_tab     == << cmp_vars, scan_vars, probe, load, entry, keyed, sort, norm,
                 workers >>

\* an operation that is not called
NotCalled == [pc |-> "idle"]
ProbeIdle   == probe = NotCalled
LoadIdle    == load = NotCalled
EntryIdle   == entry = NotCalled
KeyedIdle   == keyed = NotCalled
SortIdle    == sort = NotCalled
NormIdle    == norm = NotCalled
WorkersIdle == workers = NotCalled
TabIdle     == tab = NotCalled

(***************************************************************************)
(* Inputs of the comparator                                                *)
(***************************************************************************)
Raw == [ Name |-> <<>>, name |-> <<>>, Size |-> Absent, size |-> Absent,
         Size_Display |-> <<>>, size_display |-> <<>>,
         Category |-> "", category |-> "" ]

\* scanner-shaped records with a numeric size
ItemA1   == [Raw EXCEPT !.name = <<"a">>, !.size = PyInt(1)]
ItemA4k2 == [Raw EXCEPT !.name = <<"a", ".", "4", "k">>, !.size = PyInt(2),
                        !.category = "Videos"]
\* snapshot-shaped records with a display string only
ItemADisp  == [Raw EXCEPT !.Name = <<"A">>, !.Size_Display = <<"1", " ", "K">>,
                          !.Category = "Music"]
\* records with no size information
ItemA4kBare == [Raw EXCEPT !.name = <<"a", ".", "4", "k">>]
ItemABrBare == [Raw EXCEPT !.name = <<"[", "A", "]">>, !.category = "Photos"]
\* another key, and a nameless record
ItemB       == [Raw EXCEPT !.name = <<"b">>, !.Size = PyStr(<<"2">>)]
ItemNoName  == [Raw EXCEPT !.size = PyInt(1)]

Items == { ItemA1, ItemA4k2, ItemADisp, ItemA4kBare, ItemABrBare, ItemB, ItemNoName }

SeqsUpTo(S, n) == UNION {[1..k -> S] : k \in 0..n}

(***************************************************************************)
(* Comparator: the call                                                    *)
(***************************************************************************)
RawName(item) == OrStr(item.Name, item.name)

\* compare_scanfiles / compare_folders / compare_scanfile_vs_folder hand the
\* two collections to _compare_lists
CompareLists ==
  /\ cmp_pc = "ready"
  /\ results' = _compare_lists(left, right)
  /\ cmp_pc' = "done"
  /\ UNCHANGED << left, right >>
  /\ UNCHANGED not_cmp

ScanIdle ==
  /\ files = <<>> /\ include_hash = FALSE /\ has_callback = FALSE
  /\ scan_pc = "idle" /\ count = 0 /\ items = <<>> /\ outcomes = <<>>
  /\ calls = <<>> /\ returned = <<>>

RestIdle ==
  /\ ProbeIdle /\ LoadIdle /\ EntryIdle /\ KeyedIdle /\ SortIdle /\ NormIdle
  /\ WorkersIdle /\ TabIdle

\* one side holds up to MaxItems records, the other at most MaxItems - 2
InitCompare ==
  /\ \/ /\ left \in SeqsUpTo(Items, MaxItems)
        /\ right \in SeqsUpTo(Items, MaxItems - 2)
     \/ /\ left \in SeqsUpTo(Items, MaxItems - 2)
        /\ right \in SeqsUpTo(Items, MaxItems)
  /\ results = <<>>
  /\ cmp_pc = "ready"
  /\ ScanIdle
  /\ RestIdle

NextCompare == CompareLists

SpecCompare == InitCompare /\ [][NextCompare]_vars

(***************************************************************************)
(* Comparator: what the claims speak of, stated from the inputs            *)
(***************************************************************************)
\* the key and the canonical shape of each record the inputs are drawn from
NameKeys  == [it \in Items |-> _normalize_name(RawName(it))]
Canonical == [it \in Items |-> _normalize_item(it)]

NamedAt(list)  == {i \in 1..Len(list) : RawName(list[i]) # <<>>}
KeyAt(list, i) == NameKeys[list[i]]
KeysOf(list)   == {KeyAt(list, i) : i \in NamedAt(list)}

\* the first record of the list whose key is k, in canonical shape
RECURSIVE FirstFrom(_, _, _)
FirstFrom(list, k, i) ==
  IF RawName(list[i]) # <<>> /\ KeyAt(list, i) = k THEN i
  ELSE FirstFrom(list, k, i + 1)
FirstAt(list, k)        == FirstFrom(list, k, 1)
Representative(list, k) == Canonical[list[FirstAt(list, k)]]

\* the list without the records whose key an earlier record already has
RECURSIVE FirstOnly(_, _)
FirstOnly(list, seen) ==
  IF list = <<>> THEN <<>>
  ELSE IF RawName(list[1]) = <<>> THEN <<list[1]>> \o FirstOnly(Tail(list), seen)
  ELSE IF KeyAt(list, 1) \in seen THEN FirstOnly(Tail(list), seen)
       ELSE <<list[1]>> \o FirstOnly(Tail(list), seen \cup {KeyAt(list, 1)})

HasNumericSize(it) == it.size.t = "int"
HasDisplay(it)     == it.size_display # <<>>
BothKeys           == KeysOf(left) \cap KeysOf(right)
EntriesOf(k)       == {i \in 1..Len(results) : results[i].file = k}

\* C1: a key on both sides whose two representatives carry a numeric size gets
\* both_same when the sizes are equal and both_differ when they are not.
C1_NumericSizesDecideStatus ==
  cmp_pc = "done" =>
    \A i \in 1..Len(results) :
      LET k == results[i].file IN
      (k \in BothKeys /\ HasNumericSize(Representative(left, k))
                      /\ HasNumericSize(Representative(right, k)))
      => results[i].status =
           IF Representative(left, k).size.n = Representative(right, k).size.n
           THEN "both_same" ELSE "both_differ"

\* C2: a key on both sides where a representative lacks a numeric size and both
\* have a display string gets both_same when the strings are equal after
\* lower-casing and removing whitespace and commas, both_differ otherwise.
C2_DisplayStringsDecideStatus ==
  cmp_pc = "done" =>
    \A i \in 1..Len(results) :
      LET k == results[i].file IN
      (k \in BothKeys
         /\ ~(HasNumericSize(Representative(left, k))
              /\ HasNumericSize(Representative(right, k)))
         /\ HasDisplay(Representative(left, k))
         /\ HasDisplay(Representative(right, k)))
      => results[i].status =
           IF DispNorm(Representative(left, k).size_display)
                = DispNorm(Representative(right, k).size_display)
           THEN "both_same" ELSE "both_differ"

NoSizeInfo(it) == ~HasNumericSize(it) /\ ~HasDisplay(it)

\* C3: a key on both sides whose representatives carry neither a numeric size
\* nor a display string gets both_same.
C3_NoSizeInfoIsBothSame ==
  cmp_pc = "done" =>
    \A i \in 1..Len(results) :
      LET k == results[i].file IN
      (k \in BothKeys /\ NoSizeInfo(Representative(left, k))
                      /\ NoSizeInfo(Representative(right, k)))
      => results[i].status = "both_same"

C3_Witness ==
  /\ cmp_pc = "done"
  /\ \E i \in 1..Len(results) :
       LET k == results[i].file IN
       /\ k \in BothKeys
       /\ NoSizeInfo(Representative(left, k))
       /\ NoSizeInfo(Representative(right, k))
       /\ Representative(left, k).name # Representative(right, k).name
       /\ results[i].status = "both_same"

\* C4: a key only on the left has an only_left entry with an empty right
\* display, a key only on the right an only_right entry with an empty left
\* display, and no key of exactly one side has a both_* status.
C4_OneSidedKeys ==
  cmp_pc = "done" =>
    /\ \A k \in KeysOf(left) \ KeysOf(right) :
         /\ EntriesOf(k) # {}
         /\ \A i \in EntriesOf(k) : /\ results[i].status = "only_left"
                                    /\ results[i].right_size = PyStr(<<>>)
    /\ \A k \in KeysOf(right) \ KeysOf(left) :
         /\ EntriesOf(k) # {}
         /\ \A i \in EntriesOf(k) : /\ results[i].status = "only_right"
                                    /\ results[i].left_size = PyStr(<<>>)

C4_Witness ==
  /\ cmp_pc = "done"
  /\ \E i, j \in 1..Len(results) :
       /\ results[i].status = "only_left"  /\ results[i].file \notin KeysOf(right)
       /\ results[j].status = "only_right" /\ results[j].file \notin KeysOf(left)

\* C5: the result holds exactly one entry per distinct key of the named
\* records of either side, in strictly ascending order of key.
C5_OneEntryPerKeyAscending ==
  cmp_pc = "done" =>
    /\ {results[i].file : i \in 1..Len(results)} = KeysOf(left) \cup KeysOf(right)
    /\ Len(results) = Cardinality(KeysOf(left) \cup KeysOf(right))
    /\ \A i \in 1..(Len(results) - 1) : StrLess(results[i].file, results[i + 1].file)

C5_Witness ==
  /\ cmp_pc = "done"
  /\ Len(results) >= 2
  /\ Cardinality(NamedAt(left)) > Cardinality(KeysOf(left))
  /\ \E i \in 1..Len(left) : RawName(left[i]) = <<>>
  /\ KeysOf(right) \ KeysOf(left) # {}

\* C6: the result is the one the first record of each key alone gives: later
\* records of a key, wherever they stand and however many, change no entry.
C6_LaterDuplicatesChangeNothing ==
  cmp_pc = "done" =>
    results = _compare_lists(FirstOnly(left, {}), FirstOnly(right, {}))

\* a side holds a key three times, the later records differing from the first
\* one and from each other, and the key is on the other side too
C6_Witness ==
  /\ cmp_pc = "done"
  /\ \E k \in BothKeys :
       \E i, j \in NamedAt(left) :
         /\ FirstAt(left, k) < i /\ i < j
         /\ KeyAt(left, i) = k /\ KeyAt(left, j) = k
         /\ Canonical[left[i]] # Representative(left, k)
         /\ Canonical[left[j]] # Representative(left, k)
         /\ left[i] # left[j]

(***************************************************************************)
(* scanner.py: Scanner.scan_folder                                         *)
(***************************************************************************)
\* the files a root can hold: a name and the size stat() reports for it
FileAMp4 == [name |-> <<"a", ".", "M", "P", "4">>, size |-> 1536]
FileBMp3 == [name |-> <<"b", ".", "m", "p", "3">>, size |-> 100]
FileCJpg == [name |-> <<"c", ".", "j", "p", "g">>, size |-> 0]
FileD    == [name |-> <<"d">>, size |-> 1280]

ScanFiles == {FileAMp4, FileBMp3, FileCJpg, FileD}

RECURSIVE Gcd(_, _)
Gcd(a, b) == IF b = 0 THEN a ELSE Gcd(b, a % b)

RECURSIVE IsPowerOfTwo(_)
IsPowerOfTwo(n) == n = 1 \/ (n % 2 = 0 /\ IsPowerOfTwo(n \div 2))

\* progress computed from a counter that starts at zero
ProgressValuesFromZero(cnt, total) == {((cnt - 1) * 100) \div total}

\* int((count / total) * 100) in double arithmetic: the floor of the exact
\* value, except that the product can fall just below a whole number when the
\* quotient is not exact in binary (29 of 50 gives 57)
ProgressValues(cnt, total) ==
  LET exact == (cnt * 100) \div total
  IN  IF (cnt * 100) % total = 0 /\ ~IsPowerOfTwo(total \div Gcd(cnt, total))
      THEN {exact - 1, exact}
      ELSE {exact}

\* a record is appended whatever the hash step does
AppendedIgnoringHash(stat_ok, hash_ok) == stat_ok

\* lines 116-149: the record is appended unless stat() or, when hashing is
\* on, sha256_of_file raised
Appended(stat_ok, hash_ok) == stat_ok /\ (include_hash => hash_ok)

\* lines 117-145: the record of file f, the idx-th enumerated path, when the
\* probe handed back d
ItemOf(f, idx, d) ==
  LET ext     == StrLower(Suffix(f.name))
      probed  == ext \in VIDEO_EXTS \/ ext \in AUDIO_EXTS
      fmt     == _fmt_duration(d)
  IN  [ name             |-> f.name,
        path             |-> idx,
        size             |-> f.size,
        size_display     |-> sizeof_fmt(f.size),
        ext              |-> ext,
        category         |-> _categorize_by_ext(ext),
        duration         |-> IF probed /\ fmt.ok THEN d ELSE DurNone,
        duration_display |-> IF ~probed THEN <<"N", "/", "A">>
                             ELSE IF fmt.ok THEN fmt.s
                             ELSE <<"E", "r", "r", "o", "r">>,
        sha256           |-> IF include_hash THEN "digest" ELSE "" ]

\* what the processing of file f did: which step raised out of the outer
\* try, and what became of the probe step
OutcomeOf(f, stat_ok, d, hash_ok) ==
  LET ext    == StrLower(Suffix(f.name))
      probed == ext \in VIDEO_EXTS \/ ext \in AUDIO_EXTS
  IN  [ raised |-> IF ~stat_ok THEN "stat"
                   ELSE IF include_hash /\ ~hash_ok THEN "hash"
                   ELSE "none",
        probe  |-> IF ~stat_ok \/ ~probed THEN "skipped"
                   ELSE IF _fmt_duration(d).ok THEN "ok" ELSE "error" ]

\* an empty root makes one call to the callback before returning
ScanBeginNotifying ==
  /\ scan_pc = "start"
  /\ count' = 0
  /\ items' = <<>>
  /\ IF Len(files) = 0
     THEN /\ scan_pc' = "returned"
          /\ returned' = <<>>
          /\ calls' = IF has_callback THEN <<[progress |-> 100, path |-> 0]>> ELSE calls
     ELSE /\ scan_pc' = "loop"
          /\ UNCHANGED << returned, calls >>
  /\ UNCHANGED << files, include_hash, has_callback, outcomes >>
  /\ UNCHANGED not_scan

\* lines 102-113: enumerate, and return [] at once for a root with no file
ScanBegin ==
  /\ scan_pc = "start"
  /\ count' = 0
  /\ items' = <<>>
  /\ IF Len(files) = 0
     THEN /\ scan_pc' = "returned"
          /\ returned' = <<>>
     ELSE /\ scan_pc' = "loop"
          /\ UNCHANGED returned
  /\ UNCHANGED << files, include_hash, has_callback, outcomes, calls >>
  /\ UNCHANGED not_scan

\* lines 115-153: one iteration of the loop, its finally clause included
ProcessFile ==
  /\ scan_pc = "loop"
  /\ count < Len(files)
  /\ \E stat_ok \in BOOLEAN, d \in ProbeResults, hash_ok \in BOOLEAN,
        progress \in ProgressValues(count + 1, Len(files)) :
       LET f == files[count + 1] IN
       /\ count' = count + 1
       /\ items' = IF Appended(stat_ok, hash_ok)
                   THEN Append(items, ItemOf(f, count + 1, d))
                   ELSE items
       /\ outcomes' = Append(outcomes, OutcomeOf(f, stat_ok, d, hash_ok))
       /\ calls' = IF has_callback
                   THEN Append(calls, [progress |-> progress, path |-> count + 1])
                   ELSE calls
  /\ UNCHANGED << files, include_hash, has_callback, scan_pc, returned >>
  /\ UNCHANGED not_scan

\* line 155: return items
ScanReturn ==
  /\ scan_pc = "loop"
  /\ count = Len(files)
  /\ scan_pc' = "returned"
  /\ returned' = items
  /\ UNCHANGED << files, include_hash, has_callback, count, items, outcomes, calls >>
  /\ UNCHANGED not_scan

CompareIdle ==
  /\ left = <<>> /\ right = <<>> /\ results = <<>> /\ cmp_pc = "idle"

InitScan ==
  /\ files \in SeqsUpTo(ScanFiles, MaxFiles)
  /\ include_hash \in BOOLEAN
  /\ has_callback \in BOOLEAN
  /\ scan_pc = "start"
  /\ count = 0
  /\ items = <<>>
  /\ outcomes = <<>>
  /\ calls = <<>>
  /\ returned = <<>>
  /\ CompareIdle
  /\ RestIdle

NextScan ==
  \/ ScanBegin
  \/ ProcessFile
  \/ ScanReturn

SpecScan == InitScan /\ [][NextScan]_vars

(***************************************************************************)
(* Scanner: the claims                                                     *)
(***************************************************************************)
Err == <<"E", "r", "r", "o", "r">>

\* C7: with a callback and N >= 1 files, the callback is called once after
\* each file, in enumeration order, N times in all, with percents in 0..100
\* that never decrease and end at 100.
C7_ProgressOncePerFile ==
  (has_callback /\ Len(files) >= 1) =>
    /\ Len(calls) = count
    /\ \A i \in 1..Len(calls) : /\ calls[i].path = i
                                /\ calls[i].progress \in 0..100
    /\ \A i \in 1..(Len(calls) - 1) : calls[i].progress <= calls[i + 1].progress
    /\ scan_pc = "returned" => /\ Len(calls) = Len(files)
                               /\ calls[Len(calls)].progress = 100

C7_Witness ==
  /\ scan_pc = "returned" /\ has_callback
  /\ Len(files) = 3
  /\ Len(calls) = 3
  /\ calls[1].progress = 33 /\ calls[2].progress = 66 /\ calls[3].progress = 100
  /\ \E i \in 1..3 : outcomes[i].raised # "none"

\* C8: a root with no file returns the empty list and the callback is never
\* called.
C8_EmptyRootReturnsEmpty ==
  (scan_pc = "returned" /\ Len(files) = 0) => (returned = <<>> /\ calls = <<>>)

C8_Witness ==
  /\ scan_pc = "returned" /\ Len(files) = 0 /\ has_callback
  /\ returned = <<>> /\ calls = <<>>

ItemPaths    == {items[i].path : i \in 1..Len(items)}
InPathOrder  == \A i \in 1..(Len(items) - 1) : items[i].path < items[i + 1].path
CalledForAll == has_callback =>
                  (Len(calls) = count /\ \A i \in 1..count : calls[i].path = i)
AllProcessed == scan_pc = "returned" => (count = Len(files) /\ returned = items)

\* C9 as claimed: a file whose processing raised in stat, in the duration step
\* or in hashing is absent from the result; the callback is still called for
\* it, every later file is processed, and the list returned holds the records
\* of the other files in enumeration order.
C9_AnyRaiseDropsTheFile ==
  /\ Len(outcomes) = count
  /\ ItemPaths = {i \in 1..count : outcomes[i].raised = "none"
                                   /\ outcomes[i].probe # "error"}
  /\ InPathOrder
  /\ CalledForAll
  /\ AllProcessed

\* C9 amended: a file whose stat or hashing raised is absent from the result;
\* a file whose duration step raised keeps its record, with no duration and the
\* display "Error"; the callback is called for every file, every later file is
\* processed, and the list returned holds the records of the files whose stat
\* and hashing did not raise, in enumeration order.
C9_StatOrHashRaiseDropsTheFile ==
  /\ Len(outcomes) = count
  /\ ItemPaths = {i \in 1..count : outcomes[i].raised = "none"}
  /\ InPathOrder
  /\ \A i \in 1..Len(items) :
       /\ items[i].name = files[items[i].path].name
       /\ outcomes[items[i].path].probe = "error"
            => (items[i].duration = DurNone /\ items[i].duration_display = Err)
  /\ CalledForAll
  /\ AllProcessed

C9_Witness ==
  /\ scan_pc = "returned" /\ has_callback /\ include_hash
  /\ Len(files) = 3
  /\ outcomes[1].raised = "hash"
  /\ outcomes[2].raised = "none" /\ outcomes[2].probe = "error"
  /\ outcomes[3].raised = "stat"
  /\ Len(returned) = 1 /\ returned[1].path = 2
  /\ Len(calls) = 3

\* C10: the category of a record depends only on its lower-cased extension
\* and is one of Videos, Music, Photos, Other: Videos for the video set,
\* Music for the audio set, Photos for the image set, Other for the rest.
C10_CategoryFromExtension ==
  \A i \in 1..Len(items) :
    /\ items[i].category \in {"Videos", "Music", "Photos", "Other"}
    /\ items[i].category =
         IF items[i].ext \in VIDEO_EXTS THEN "Videos"
         ELSE IF items[i].ext \in AUDIO_EXTS THEN "Music"
         ELSE IF items[i].ext \in IMAGE_EXTS THEN "Photos"
         ELSE "Other"

(***************************************************************************)
(* get_duration, one strategy at a time                                    *)
(***************************************************************************)
\* float(s) for the text ffprobe prints: [ok |-> FALSE] stands for ValueError.
\* Durations are whole seconds here, so the fraction must be zeros.
FloatOfStr(s) ==
  LET t    == StrStrip(s)
      dots == {i \in 1..Len(t) : t[i] = "."}
      whole == IF dots = {} THEN t
               ELSE SubSeq(t, 1, (CHOOSE i \in dots : TRUE) - 1)
      frac == IF dots = {} THEN <<>>
              ELSE SubSeq(t, (CHOOSE i \in dots : TRUE) + 1, Len(t))
  IN  IF StrLower(t) = <<"n", "a", "n">> THEN [ok |-> TRUE, d |-> DurNaN]
      ELSE IF /\ Cardinality(dots) <= 1
              /\ IsIntBody(whole)
              /\ \A i \in 1..Len(frac) : frac[i] = "0"
           THEN [ok |-> TRUE, d |-> DurNum(DigitsValue(whole, 0))]
           ELSE [ok |-> FALSE, d |-> DurNone]

\* what a strategy hands to get_duration: a value, or an exception
Gives(d)  == [raised |-> FALSE, d |-> d]
Escapes   == [raised |-> TRUE, d |-> DurNone]

\* what can happen when ffprobe is started
FfprobeOutcomes ==
  {[kind |-> "missing", out |-> <<>>], [kind |-> "timeout", out |-> <<>>]}
  \cup {[kind |-> "exited", out |-> o] :
          o \in { <<>>, <<"\n">>, <<"N", "/", "A", "\n">>,
                  <<"0", ".", "0", "0", "\n">>, <<"7", "5", ".", "0", "\n">>,
                  <<"n", "a", "n", "\n">> }}

\* what can happen with the media-info library: it is not installed, parse
\* raises, or parse gives tracks whose duration is absent (0) or milliseconds
MediaInfoOutcomes ==
  {[kind |-> "unavailable", tracks |-> <<>>], [kind |-> "raises", tracks |-> <<>>]}
  \cup {[kind |-> "parsed", tracks |-> t] :
          t \in { <<>>, <<0>>, <<0, 75000>>, <<42000, 75000>> }}

\* what can happen with the tag library: it is not installed, it raises, it
\* knows no such file type, or it gives a file object (truthy or not) whose
\* info has a length or none
MutagenOutcomes ==
  {[kind |-> k, truthy |-> FALSE, length |-> DurNone] :
     k \in {"unavailable", "raises", "unknown"}}
  \cup {[kind |-> "file", truthy |-> b, length |-> l] :
          b \in BOOLEAN, l \in {DurNone, DurNum(0), DurNum(75)}}

run_ffprobe_durationUncaught(o) ==
  IF o.kind \in {"missing", "timeout"} THEN Escapes
  ELSE LET out == StrStrip(o.out)
       IN  IF out # <<>> /\ FloatOfStr(out).ok THEN Gives(FloatOfStr(out).d)
           ELSE Gives(DurNone)

run_ffprobe_duration(o) ==
  IF o.kind \in {"missing", "timeout"} THEN Gives(DurNone)
  ELSE LET out == StrStrip(o.out)
       IN  IF out = <<>> THEN Gives(DurNone)
           ELSE IF FloatOfStr(out).ok THEN Gives(FloatOfStr(out).d)
           ELSE Gives(DurNone)

\* the first track with a truthy duration, 0 when there is none
RECURSIVE FirstDuration(_)
FirstDuration(tracks) ==
  IF tracks = <<>> THEN 0
  ELSE IF Head(tracks) # 0 THEN Head(tracks)
  ELSE FirstDuration(Tail(tracks))

pymediainfo_duration(o) ==
  IF o.kind = "unavailable" THEN Gives(DurNone)
  ELSE IF o.kind = "raises" THEN Gives(DurNone)
  ELSE IF FirstDuration(o.tracks) # 0
       THEN Gives(DurNum(FirstDuration(o.tracks) \div 1000))
       ELSE Gives(DurNone)

mutagen_duration(o) ==
  IF o.kind = "unavailable" THEN Gives(DurNone)
  ELSE IF o.kind = "raises" THEN Gives(DurNone)
  ELSE IF o.kind = "file" /\ o.truthy THEN Gives(o.length)
  ELSE Gives(DurNone)

StrategyOrder == << "ffprobe", "mediainfo", "mutagen" >>

\* strategy i of get_duration on the outcomes env
StrategyResult(i, env) ==
  IF i = 1 THEN run_ffprobe_duration(env.ffprobe)
  ELSE IF i = 2 THEN pymediainfo_duration(env.mediainfo)
  ELSE mutagen_duration(env.mutagen)

\* lines 75-83: strategy i has been called; return its result when it is
\* truthy, else go on to the next strategy, and to `return None` after the last
AfterStrategy(i) ==
  LET r == StrategyResult(i, probe.env)
  IN  [probe EXCEPT
         !.consulted = Append(@, StrategyOrder[i]),
         !.result = IF ~r.raised /\ Truthy(r.d) THEN r.d ELSE DurNone,
         !.pc = IF r.raised THEN "raised"
                ELSE IF Truthy(r.d) \/ i = 3 THEN "returned"
                ELSE StrategyOrder[i + 1]]

ProbeFfprobe ==
  /\ probe.pc = "ffprobe"
  /\ probe' = AfterStrategy(1)
  /\ UNCHANGED not_probe

ProbeMediaInfo ==
  /\ probe.pc = "mediainfo"
  /\ probe' = AfterStrategy(2)
  /\ UNCHANGED not_probe

ProbeMutagen ==
  /\ probe.pc = "mutagen"
  /\ probe' = AfterStrategy(3)
  /\ UNCHANGED not_probe

InitProbe ==
  /\ \E f \in FfprobeOutcomes, m \in MediaInfoOutcomes, t \in MutagenOutcomes :
       probe = [pc |-> "ffprobe",
                env |-> [ffprobe |-> f, mediainfo |-> m, mutagen |-> t],
                consulted |-> <<>>, result |-> DurNone]
  /\ CompareIdle /\ ScanIdle /\ TabIdle
  /\ LoadIdle /\ EntryIdle /\ KeyedIdle /\ SortIdle /\ NormIdle /\ WorkersIdle

NextProbe == ProbeFfprobe \/ ProbeMediaInfo \/ ProbeMutagen

SpecProbe == InitProbe /\ [][NextProbe]_vars

\* the strategy failed, timed out or is unavailable
StrategyFailed(i, env) ==
  IF i = 1 THEN env.ffprobe.kind \in {"missing", "timeout"}
                \/ FloatOfStr(env.ffprobe.out).ok = FALSE
  ELSE IF i = 2 THEN env.mediainfo.kind \in {"unavailable", "raises"}
  ELSE env.mutagen.kind \in {"unavailable", "raises", "unknown"}

\* the strategies that yield a duration
Yielding(env) == {i \in 1..3 : Truthy(StrategyResult(i, env).d)}

\* C11: get_duration consults ffprobe, the media-info library and the tag
\* library in that order and never raises; it returns the result of the first
\* strategy that yields a duration and consults none after it; it returns none
\* when no strategy yields one, in particular when all three fail, time out or
\* are unavailable.
C11_FirstYieldingStrategyWins ==
  /\ probe.pc # "raised"
  /\ probe.pc # "idle" =>
       /\ Len(probe.consulted) <= 3
       /\ probe.consulted = SubSeq(StrategyOrder, 1, Len(probe.consulted))
  /\ probe.pc = "returned" =>
       /\ IF Yielding(probe.env) = {}
          THEN probe.result = DurNone /\ probe.consulted = StrategyOrder
          ELSE LET k == CHOOSE i \in Yielding(probe.env) :
                          \A j \in Yielding(probe.env) : i <= j
               IN  /\ probe.result = StrategyResult(k, probe.env).d
                   /\ probe.consulted = SubSeq(StrategyOrder, 1, k)
       /\ probe.result = get_duration(StrategyResult(1, probe.env).d,
                                      StrategyResult(2, probe.env).d,
                                      StrategyResult(3, probe.env).d)
       /\ (\A i \in 1..3 : StrategyFailed(i, probe.env)) =>
            probe.result = DurNone

\* the call returned the media-info duration after ffprobe timed out, and the
\* tag library, which had a length too, was not consulted
C11_Witness ==
  /\ probe.pc = "returned"
  /\ probe.env.ffprobe.kind = "timeout"
  /\ probe.env.mutagen.kind = "file" /\ Truthy(probe.env.mutagen.length)
  /\ probe.env.mutagen.truthy
  /\ probe.result = DurNum(42)
  /\ probe.consulted = << "ffprobe", "mediainfo" >>

(***************************************************************************)
(* compare.py: _load_scanfile                                              *)
(***************************************************************************)
\* most lines in a snapshot file
MaxLines == 3

\* lines of legacy snapshot files, as readlines() gives them
LineHeader ==
  <<"N", "a", "m", "e", "\t", "P", "a", "t", "h", "\t", "S", "i", "z", "e", "\n">>
LineThree ==
  <<"a", ".", "M", "P", "4", "\t", "/", "x", "\t", "1", "K", "\n">>
LineTwo ==
  <<"b", "\t", "/", "y", "\n">>
LineOne ==
  <<"c", ".", "j", "p", "g", "\n">>
LineBlank ==
  <<" ", "\n">>
LinePathname ==
  <<"p", "a", "t", "h", "n", "a", "m", "e", ".", "m", "k", "v", "\t", "/", "z", "\n">>

SnapshotLines ==
  {LineHeader, LineThree, LineTwo, LineOne, LineBlank, LinePathname}

\* lines of a .json file whose content is valid JSON but no list
JsonScalarLines == { <<"7", "\n">>, <<"n", "u", "l", "l", "\n">> }

\* a snapshot file on disk: both opens fail (missing, denied), its bytes are no
\* UTF-8 (undecodable), or it has lines; for a .json path, what json.load makes
\* of it: an error, a list (data), or another value
NoFile == [kind |-> "missing", json |-> FALSE, data |-> <<>>, lines |-> <<>>]

SnapshotFiles ==
  {[NoFile EXCEPT !.kind = k, !.json = j] :
     k \in {"missing", "denied", "undecodable"}, j \in BOOLEAN}
  \cup {[NoFile EXCEPT !.kind = "json_invalid", !.json = TRUE]}
  \cup {[NoFile EXCEPT !.kind = "json_list", !.json = TRUE, !.data = d] :
          d \in SeqsUpTo({ItemA1, ItemADisp, ItemB}, 2)}
  \cup {[NoFile EXCEPT !.kind = "json_other", !.json = TRUE, !.lines = <<l>>] :
          l \in JsonScalarLines}
  \cup {[NoFile EXCEPT !.kind = "text", !.lines = l] :
          l \in SeqsUpTo(SnapshotLines, MaxLines)}

\* sub in s
Contains(s, sub) ==
  \E i \in 1..(Len(s) - Len(sub) + 1) : SubSeq(s, i, i + Len(sub) - 1) = sub

\* str.split("\t"): every field, empty ones too
RECURSIVE SplitTabs(_, _)
SplitTabs(s, cur) ==
  IF s = <<>> THEN <<cur>>
  ELSE IF Head(s) = "\t" THEN <<cur>> \o SplitTabs(Tail(s), <<>>)
  ELSE SplitTabs(Tail(s), Append(cur, Head(s)))

\* [ln.strip() for ln in f.readlines() if ln.strip()]
RECURSIVE StrippedLines(_)
StrippedLines(lines) ==
  IF lines = <<>> THEN <<>>
  ELSE IF StrStrip(Head(lines)) = <<>> THEN StrippedLines(Tail(lines))
  ELSE <<StrStrip(Head(lines))>> \o StrippedLines(Tail(lines))

word_name == <<"n", "a", "m", "e">>
word_path == <<"p", "a", "t", "h">>
size_na   == <<"N", "/", "A">>

\* has_header of lines 107-108
has_header(first) ==
  Contains(StrLower(first), word_name) /\ Contains(StrLower(first), word_path)

TextRecord(name, path, size) ==
  [name |-> name, path |-> path, size_display |-> size,
   ext |-> IF name # <<>> THEN StrLower(Suffix(name)) ELSE <<>>,
   category |-> "Other"]

\* lines 116-146: the records of one line, none or one
LineRecords(ln) ==
  LET parts == SplitTabs(ln, <<>>)
  IN  IF StrStrip(ln) = <<>> THEN <<>>
      ELSE IF Len(parts) >= 2
           THEN << TextRecord(StrStrip(parts[1]), StrStrip(parts[2]),
                              IF Len(parts) > 2 THEN StrStrip(parts[3])
                              ELSE size_na) >>
           ELSE IF StrStrip(parts[1]) # <<>>
                THEN << TextRecord(StrStrip(parts[1]), StrStrip(parts[1]),
                                   size_na) >>
                ELSE <<>>

RECURSIVE RecordsOf(_)
RecordsOf(lines) ==
  IF lines = <<>> THEN <<>>
  ELSE LineRecords(Head(lines)) \o RecordsOf(Tail(lines))

\* lines 100-146
ParseText(file) ==
  LET lines == StrippedLines(file.lines)
  IN  IF lines = <<>> THEN <<>>
      ELSE IF has_header(lines[1]) THEN RecordsOf(Tail(lines))
      ELSE RecordsOf(lines)

\* what the function hands to its caller: a list, or an exception
Returns(list) == [raised |-> FALSE, items |-> list]
Raises        == [raised |-> TRUE, items |-> <<>>]

\* lines 91-146, the body of the try
LoadBody(file) ==
  IF file.kind \in {"missing", "denied", "undecodable", "json_invalid"}
  THEN Raises
  ELSE IF file.kind = "json_list" THEN Returns(file.data)
  ELSE Returns(ParseText(file))

_load_scanfileUnguarded(file) == LoadBody(file)

_load_scanfile(file) ==
  IF LoadBody(file).raised THEN Returns(<<>>) ELSE LoadBody(file)

LoadScanfile ==
  /\ load.pc = "called"
  /\ LET r == _load_scanfile(load.file)
     IN  load' = [load EXCEPT !.pc = IF r.raised THEN "raised" ELSE "returned",
                              !.result = r.items]
  /\ UNCHANGED not_load

InitLoad ==
  /\ \E f \in SnapshotFiles : load = [pc |-> "called", file |-> f, result |-> <<>>]
  /\ CompareIdle /\ ScanIdle /\ TabIdle
  /\ ProbeIdle /\ EntryIdle /\ KeyedIdle /\ SortIdle /\ NormIdle /\ WorkersIdle

NextLoad == LoadScanfile

SpecLoad == InitLoad /\ [][NextLoad]_vars

\* C12: _load_scanfile never raises and always returns a list; a file that is
\* missing, unreadable or undecodable, and a .json file that is no JSON, give
\* the empty list.
C12_LoaderNeverRaises ==
  /\ load.pc # "raised"
  /\ load.pc = "returned" =>
       /\ load.result \in Seq(SeqRange(load.result))
       /\ load.file.kind \in {"missing", "denied", "undecodable", "json_invalid"}
            => load.result = <<>>

\* a .json file with malformed content was loaded as the empty list
C12_Witness ==
  /\ load.pc = "returned"
  /\ load.file.kind = "json_invalid"
  /\ load.result = <<>>

\* the claim's reading of one snapshot line: its tab-separated fields
ClaimFields(ln) ==
  LET parts == SplitTabs(StrStrip(ln), <<>>)
  IN  [i \in 1..Len(parts) |-> StrStrip(parts[i])]

\* the first two columns read like "name" and "path"
ClaimIsHeader(ln) ==
  LET f == ClaimFields(ln)
  IN  /\ Len(f) >= 2
      /\ Contains(StrLower(f[1]), word_name)
      /\ Contains(StrLower(f[2]), word_path)

ClaimRecord(ln) ==
  LET f == ClaimFields(ln)
  IN  IF Len(f) >= 2
      THEN TextRecord(f[1], f[2], IF Len(f) > 2 THEN f[3] ELSE size_na)
      ELSE TextRecord(f[1], f[1], size_na)

NonBlank(lines) == SelectSeq(lines, LAMBDA ln : StrStrip(ln) # <<>>)

ClaimRecords(lines) ==
  LET nb   == NonBlank(lines)
      data == IF nb # <<>> /\ ClaimIsHeader(nb[1]) THEN Tail(nb) ELSE nb
  IN  [i \in 1..Len(data) |-> ClaimRecord(data[i])]

\* C13: for a legacy tab-delimited snapshot the loader drops the first
\* non-blank line only when its first two columns read like name and path, and
\* every other non-blank line gives exactly one record, in file order, with the
\* fields the line holds; no data line is lost.
C13_EveryDataLineGivesARecord ==
  (load.pc = "returned" /\ load.file.kind = "text") =>
     load.result = ClaimRecords(load.file.lines)

(***************************************************************************)
(* compare.py: compare_folders, compare_scanfile_vs_folder,                *)
(* compare_scanfiles                                                       *)
(***************************************************************************)
\* most files under a root that an entry point scans
MaxSideFiles == 2

\* a size that json.load read as NaN or Infinity
PyNaN == [t |-> "nan", n |-> 0, s |-> <<>>]

\* lines 157-165: int(raw_size) for a float that is no number raises, and no
\* try encloses it; _normalize_item has a value only where this is FALSE
NormalizeRaises(item) ==
  LET raw_size == IF item.Size.t # "absent" THEN item.Size
                  ELSE IF item.size.t # "absent" THEN item.size
                  ELSE PyNone
  IN  raw_size.t = "nan"

ItemCNaN == [Raw EXCEPT !.name = <<"c">>, !.size = PyNaN]

\* a loaded text record and a scanned record, as _normalize_item reads them
AsRawText(rec) ==
  [Raw EXCEPT !.name = rec.name, !.size_display = rec.size_display,
              !.category = rec.category]

AsRawScan(it) ==
  [Raw EXCEPT !.name = it.name, !.size = PyInt(it.size),
              !.size_display = it.size_display, !.category = it.category]

AsRawScanList(its) == [i \in 1..Len(its) |-> AsRawScan(its[i])]

\* the load lets the exception of the try body through
SnapshotItemsUnguarded(file) ==
  IF LoadBody(file).raised THEN Raises
  ELSE IF file.kind = "json_list" THEN Returns(file.data)
  ELSE Returns([i \in 1..Len(LoadBody(file).items) |->
                  AsRawText(LoadBody(file).items[i])])

\* self._load_scanfile(path), its records as _normalize_item reads them
SnapshotItems(file) ==
  LET r == _load_scanfile(file)
  IN  IF r.raised THEN Raises
      ELSE IF file.kind = "json_list" THEN Returns(r.items)
      ELSE Returns([i \in 1..Len(r.items) |-> AsRawText(r.items[i])])

\* the snapshots and the roots the entry points are given
EntrySnapshots ==
  { NoFile,
    [NoFile EXCEPT !.kind = "json_invalid", !.json = TRUE],
    [NoFile EXCEPT !.kind = "undecodable"],
    [NoFile EXCEPT !.kind = "json_list", !.json = TRUE,
                   !.data = <<ItemA1, ItemB, ItemNoName>>],
    [NoFile EXCEPT !.kind = "json_list", !.json = TRUE, !.data = <<ItemCNaN>>],
    [NoFile EXCEPT !.kind = "text", !.lines = <<LineHeader, LineThree, LineTwo>>] }

EntryFiles == {FileAMp4, FileBMp3, FileD}
EntryRoots == SeqsUpTo(EntryFiles, MaxSideFiles)

\* the lambdas handed to scan_folder
WrapFirstUnhalved(p) == p
WrapFirst(p)  == p \div 2
WrapSecond(p) == 50 + p \div 2
\* 20 + int(p * 0.8): the double product truncates to 4p div 5 for 0..100
WrapFolder(p) == 20 + (4 * p) \div 5

EntryIdleFields ==
  [pc |-> "start", op |-> "", cb |-> FALSE, snap_a |-> NoFile,
   snap_b |-> NoFile, root_a |-> <<>>, root_b |-> <<>>, count |-> 0,
   items |-> <<>>, left |-> <<>>, right |-> <<>>, results |-> <<>>,
   progress |-> <<>>]

\* update_callback(p, ...) when a callback was given
Notify(progress, cb, p) == IF cb THEN Append(progress, p) ELSE progress

\* _compare_lists raises when _normalize_item does
ListRaises(l) == \E i \in 1..Len(l) : NormalizeRaises(l[i])

\* lines 51-54: compare_folders up to the first scan_folder call
CompareFoldersBegin ==
  /\ entry.pc = "start" /\ entry.op = "folders"
  /\ entry' = [entry EXCEPT !.pc = "scan_a", !.count = 0, !.items = <<>>,
                            !.progress = Notify(@, entry.cb, 0)]
  /\ UNCHANGED not_entry

\* lines 67-73: compare_scanfile_vs_folder up to the scan_folder call
ScanfileVsFolderBegin ==
  /\ entry.pc = "start" /\ entry.op = "scanfile_vs_folder"
  /\ LET l == SnapshotItems(entry.snap_a)
     IN  entry' = [entry EXCEPT
           !.pc = IF l.raised THEN "raised" ELSE "scan_b",
           !.left = l.items, !.count = 0, !.items = <<>>,
           !.progress = IF l.raised THEN Notify(@, entry.cb, 0)
                        ELSE Notify(Notify(@, entry.cb, 0), entry.cb, 20)]
  /\ UNCHANGED not_entry

\* lines 82-85: compare_scanfiles
CompareScanfiles ==
  /\ entry.pc = "start" /\ entry.op = "scanfiles"
  /\ LET a == SnapshotItems(entry.snap_a)
         b == SnapshotItems(entry.snap_b)
         raises == a.raised \/ b.raised \/ ListRaises(a.items)
                   \/ ListRaises(b.items)
     IN  entry' = [entry EXCEPT
           !.pc = IF raises THEN "raised" ELSE "returned",
           !.left = a.items, !.right = b.items,
           !.results = IF raises THEN <<>>
                       ELSE _compare_lists(a.items, b.items)]
  /\ UNCHANGED not_entry

\* scanner.py 115-153 inside a scan started by an entry point: one file; the
\* lambda is called with the scanner's percent. Hashing is off, and the probe
\* finds no duration: neither reaches the comparison.
EntryScanFile ==
  /\ entry.pc \in {"scan_a", "scan_b"}
  /\ LET root == IF entry.pc = "scan_a" THEN entry.root_a ELSE entry.root_b
     IN  /\ entry.count < Len(root)
         /\ \E stat_ok \in BOOLEAN,
               p \in ProgressValues(entry.count + 1, Len(root)) :
              entry' = [entry EXCEPT
                !.count = @ + 1,
                !.items = IF stat_ok
                          THEN Append(@, ItemOf(root[entry.count + 1],
                                                entry.count + 1, DurNone))
                          ELSE @,
                !.progress =
                   Notify(@, entry.cb,
                          IF entry.pc = "scan_a" THEN WrapFirst(p)
                          ELSE IF entry.op = "folders" THEN WrapSecond(p)
                          ELSE WrapFolder(p))]
  /\ UNCHANGED not_entry

\* lines 54-58: the first scan of compare_folders returns
FirstScanReturns ==
  /\ entry.pc = "scan_a"
  /\ entry.count = Len(entry.root_a)
  /\ entry' = [entry EXCEPT !.pc = "scan_b", !.left = AsRawScanList(entry.items),
                            !.count = 0, !.items = <<>>,
                            !.progress = Notify(@, entry.cb, 50)]
  /\ UNCHANGED not_entry

\* lines 58-64 and 74-80: the last scan returns, the final marker, the
\* comparison
LastScanReturns ==
  /\ entry.pc = "scan_b"
  /\ entry.count = Len(entry.root_b)
  /\ LET r == AsRawScanList(entry.items)
         raises == ListRaises(entry.left) \/ ListRaises(r)
     IN  entry' = [entry EXCEPT
           !.pc = IF raises THEN "raised" ELSE "returned",
           !.right = r,
           !.progress = Notify(@, entry.cb, 100),
           !.results = IF raises THEN <<>> ELSE _compare_lists(entry.left, r)]
  /\ UNCHANGED not_entry

InitEntry ==
  /\ \/ \E a \in EntryRoots, b \in EntryRoots, cb \in BOOLEAN :
          entry = [EntryIdleFields EXCEPT !.op = "folders", !.cb = cb,
                                          !.root_a = a, !.root_b = b]
     \/ \E s \in EntrySnapshots, b \in EntryRoots, cb \in BOOLEAN :
          entry = [EntryIdleFields EXCEPT !.op = "scanfile_vs_folder",
                                          !.cb = cb, !.snap_a = s, !.root_b = b]
     \/ \E s \in EntrySnapshots, t \in EntrySnapshots :
          entry = [EntryIdleFields EXCEPT !.op = "scanfiles",
                                          !.snap_a = s, !.snap_b = t]
  /\ CompareIdle /\ ScanIdle /\ TabIdle
  /\ ProbeIdle /\ LoadIdle /\ KeyedIdle /\ SortIdle /\ NormIdle /\ WorkersIdle

NextEntry ==
  \/ CompareFoldersBegin
  \/ ScanfileVsFolderBegin
  \/ CompareScanfiles
  \/ EntryScanFile
  \/ FirstScanReturns
  \/ LastScanReturns

SpecEntry == InitEntry /\ [][NextEntry]_vars

\* the snapshot cannot be read or parsed
Unloadable(file) ==
  file.kind \in {"missing", "denied", "undecodable", "json_invalid"}

\* the comparison keys of the named records of a list
ListKeys(l) ==
  {_normalize_name(l[i].name) : i \in {j \in 1..Len(l) : l[j].name # <<>>}}
  \cup {_normalize_name(l[i].Name) : i \in {j \in 1..Len(l) : l[j].Name # <<>>}}

OneEntryPerKey(keys, status) ==
  /\ Len(entry.results) = Cardinality(keys)
  /\ {entry.results[i].file : i \in 1..Len(entry.results)} = keys
  /\ \A i \in 1..Len(entry.results) : entry.results[i].status = status

\* C14: with a snapshot that cannot be read or parsed,
\* compare_scanfile_vs_folder does not raise and its result has exactly one
\* entry per distinct key of the scanned folder's records, each only_right;
\* compare_scanfiles with one such file reports one entry per key of the other
\* file, each only_left or only_right on the other file's side, none both_*.
C14_UnreadableSnapshotGivesOneSidedResult ==
  /\ (entry.pc # "idle" /\ entry.op = "scanfile_vs_folder"
      /\ Unloadable(entry.snap_a)) =>
        /\ entry.pc # "raised"
        /\ entry.pc = "returned" =>
             OneEntryPerKey(ListKeys(entry.right), "only_right")
  /\ (entry.pc = "returned" /\ entry.op = "scanfiles") =>
        /\ (Unloadable(entry.snap_a) /\ ~Unloadable(entry.snap_b)) =>
             OneEntryPerKey(ListKeys(entry.right), "only_right")
        /\ (~Unloadable(entry.snap_a) /\ Unloadable(entry.snap_b)) =>
             OneEntryPerKey(ListKeys(entry.left), "only_left")

\* a folder of two files with different keys was compared with an unreadable
\* snapshot, and both came out only_right
C14_Witness ==
  /\ entry.pc = "returned" /\ entry.op = "scanfile_vs_folder"
  /\ Unloadable(entry.snap_a)
  /\ Len(entry.results) = 2
  /\ \A i \in 1..2 : entry.results[i].status = "only_right"

(***************************************************************************)
(* _normalize_name on names that carry a resolution token                  *)
(***************************************************************************)
\* most components of a name before the token is inserted
MaxWords == 2

\* components of names: plain ones, pieces of markers, and a marker
NameWords ==
  { <<"a">>, <<"4">>, <<"F", "u", "l", "l">>, <<"h", "d">> }

Delimiters == {".", " "}

UpperChar == [c \in Chars |-> IF c \in SeqRange(Lowers)
                              THEN Uppers[IndexOf(Lowers, c)] ELSE c]
StrUpper(s) == [i \in 1..Len(s) |-> UpperChar[s[i]]]

\* components i..Len(comps), each followed by its delimiter, the last by none
RECURSIVE JoinFrom(_, _, _)
JoinFrom(comps, seps, i) ==
  IF i > Len(comps) THEN <<>>
  ELSE IF i = Len(comps) THEN comps[i]
  ELSE comps[i] \o <<seps[i]>> \o JoinFrom(comps, seps, i + 1)

\* the name with tok as a component of its own after the first k components
WithToken(comps, seps, k, tok, d) ==
  IF Len(comps) = 0 THEN tok
  ELSE IF k = Len(comps) THEN JoinFrom(comps, seps, 1) \o <<d>> \o tok
  ELSE JoinFrom(SubSeq(comps, 1, k) \o <<tok>> \o SubSeq(comps, k + 1, Len(comps)),
                SubSeq(seps, 1, k - 1) \o (IF k = 0 THEN <<>> ELSE <<seps[k]>>)
                  \o <<d>> \o SubSeq(seps, k + 1, Len(seps)),
                1)

NormalizeNames ==
  /\ keyed.pc = "called"
  /\ keyed' = [keyed EXCEPT
       !.pc = "returned",
       !.key_without = _normalize_name(JoinFrom(keyed.comps, keyed.seps, 1)),
       !.key_with = _normalize_name(WithToken(keyed.comps, keyed.seps, keyed.k,
                                              keyed.token, keyed.d))]
  /\ UNCHANGED not_keyed

InitKeyed ==
  /\ \E comps \in SeqsUpTo(NameWords, MaxWords), i \in 1..Len(res_markers),
        upper \in BOOLEAN, d \in Delimiters :
       \E seps \in [1..(Len(comps) - 1) -> Delimiters], k \in 0..Len(comps) :
          keyed = [pc |-> "called", comps |-> comps, seps |-> seps, k |-> k,
                   d |-> d,
                   token |-> IF upper THEN StrUpper(res_markers[i])
                             ELSE res_markers[i],
                   key_without |-> <<>>, key_with |-> <<>>]
  /\ CompareIdle /\ ScanIdle /\ TabIdle
  /\ ProbeIdle /\ LoadIdle /\ EntryIdle /\ SortIdle /\ NormIdle /\ WorkersIdle

NextKeyed == NormalizeNames

SpecKeyed == InitKeyed /\ [][NextKeyed]_vars

\* C15: a name with one resolution token inserted as a dot- or
\* space-delimited component of its own has the key of the name without it,
\* and so the same key whichever token of the list it carries.
C15_TokenDoesNotChangeKey ==
  keyed.pc = "returned" =>
    /\ keyed.key_with = keyed.key_without
    /\ \A j \in 1..Len(res_markers) :
         _normalize_name(WithToken(keyed.comps, keyed.seps, keyed.k,
                                   res_markers[j], keyed.d)) = keyed.key_with

\* 'Full.a' and 'Full.FULLHD.a' were keyed, and both got 'full a'
C15_Witness ==
  /\ keyed.pc = "returned"
  /\ keyed.comps = << <<"F", "u", "l", "l">>, <<"a">> >>
  /\ keyed.k = 1
  /\ keyed.token = <<"F", "U", "L", "L", "H", "D">>
  /\ keyed.key_with = <<"f", "u", "l", "l", " ", "a">>
  /\ keyed.key_without = keyed.key_with

(***************************************************************************)
(* scanner.py: Scanner.sort_items                                          *)
(***************************************************************************)
\* most records in a list handed to sort_items
MaxSortItems == 3

FileUpperB == [name |-> <<"B", ".", "m", "p", "3">>, size |-> 100]

\* scanned records: with and without a duration, and records that tie on
\* size, extension, duration and lower-cased name
SortRecords ==
  {ItemOf(f, 1, d) : f \in {FileAMp4, FileBMp3, FileUpperB, FileD},
                     d \in {DurNone, DurNum(10), DurNum(75)}}

SortFields == {"name", "size", "duration", "ext"}

\* a < b for the first component of the duration key: None is float("inf")
DurationLess(a, b) ==
  a.t = "num" /\ (b.t = "none" \/ (b.t = "num" /\ a.n < b.n))

\* the key compares the chosen field only
SortLessPrimaryOnly(by, x, y) ==
  IF by = "size" THEN x.size < y.size
  ELSE IF by = "duration" THEN DurationLess(x.duration, y.duration)
  ELSE IF by = "ext" THEN StrLess(x.ext, y.ext)
  ELSE StrLess(StrLower(x.name), StrLower(y.name))

\* key_func(x) < key_func(y), the comparison of two key tuples
SortLess(by, x, y) ==
  LET name_less == StrLess(StrLower(x.name), StrLower(y.name))
  IN  IF by = "size"
      THEN x.size < y.size \/ (x.size = y.size /\ name_less)
      ELSE IF by = "duration"
      THEN \/ DurationLess(x.duration, y.duration)
           \/ (x.duration = y.duration /\ name_less)
      ELSE IF by = "ext"
      THEN StrLess(x.ext, y.ext) \/ (x.ext = y.ext /\ name_less)
      ELSE name_less

\* x put into a sorted list behind every record that is not greater (sorted()
\* is stable)
RECURSIVE SortInsert(_, _, _)
SortInsert(by, sorted, x) ==
  IF sorted = <<>> THEN <<x>>
  ELSE IF SortLess(by, x, Head(sorted)) THEN <<x>> \o sorted
  ELSE <<Head(sorted)>> \o SortInsert(by, Tail(sorted), x)

RECURSIVE SortedFrom(_, _, _)
SortedFrom(by, rest, acc) ==
  IF rest = <<>> THEN acc
  ELSE SortedFrom(by, Tail(rest), SortInsert(by, acc, Head(rest)))

\* sorted(items, key=key_func)
sort_items(its, by) ==
  SortedFrom(IF by \in SortFields THEN by ELSE "name", its, <<>>)

SortItems ==
  /\ sort.pc = "called"
  /\ sort' = [sort EXCEPT !.pc = "returned",
                          !.result = sort_items(sort.items, sort.by)]
  /\ UNCHANGED not_sort

InitSort ==
  /\ CompareIdle /\ ScanIdle /\ TabIdle
  /\ ProbeIdle /\ LoadIdle /\ EntryIdle /\ KeyedIdle /\ NormIdle /\ WorkersIdle
  /\ \E l \in SeqsUpTo(SortRecords, MaxSortItems), by \in SortFields :
       sort = [pc |-> "called", given |-> l, items |-> l, by |-> by,
               result |-> <<>>]

NextSort == SortItems

SpecSort == InitSort /\ [][NextSort]_vars

\* how often record x occurs in list l
Occurrences(l, x) == Cardinality({i \in 1..Len(l) : l[i] = x})

\* x does not come after y in the order the claim describes: by the chosen
\* field, then by lower-cased name
InClaimedOrder(by, x, y) ==
  LET name_leq == ~StrLess(StrLower(y.name), StrLower(x.name))
  IN  IF by = "name" THEN name_leq
      ELSE IF by = "size"
      THEN x.size < y.size \/ (x.size = y.size /\ name_leq)
      ELSE IF by = "ext"
      THEN StrLess(x.ext, y.ext) \/ (x.ext = y.ext /\ name_leq)
      ELSE \/ (x.duration.t = "num" /\ y.duration.t = "none")
           \/ (x.duration.t = "num" /\ y.duration.t = "num"
               /\ x.duration.n < y.duration.n)
           \/ (x.duration = y.duration /\ name_leq)

\* C16: sort_items returns a new list that is a permutation of items and leaves
\* items as it was; the result is ordered by the chosen field, ties broken by
\* lower-cased name, and sorted by duration every record without a duration
\* comes after every record with one.
C16_SortedPermutation ==
  sort.pc = "returned" =>
    /\ sort.items = sort.given
    /\ Len(sort.result) = Len(sort.items)
    /\ \A x \in SeqRange(sort.items) \cup SeqRange(sort.result) :
         Occurrences(sort.result, x) = Occurrences(sort.items, x)
    /\ \A i \in 1..Len(sort.result), j \in 1..Len(sort.result) :
         i < j => InClaimedOrder(sort.by, sort.result[i], sort.result[j])
    /\ sort.by = "duration" =>
         \A i \in 1..Len(sort.result), j \in 1..Len(sort.result) :
           (sort.result[i].duration.t = "none"
            /\ sort.result[j].duration.t = "num") => j < i

\* sorted by duration, a record without a duration that came first in the
\* input came out last, behind two records of equal duration in name order
C16_Witness ==
  /\ sort.pc = "returned" /\ sort.by = "duration"
  /\ Len(sort.result) = 3
  /\ sort.items[1].duration.t = "none"
  /\ sort.result[3] = sort.items[1]
  /\ sort.result[1].duration = sort.result[2].duration
  /\ sort.result[1].duration.t = "num"
  /\ sort.result[1] = sort.items[3]
  /\ StrLess(StrLower(sort.result[1].name), StrLower(sort.result[2].name))

(***************************************************************************)
(* compare.py: _normalize_item on records of every shape                   *)
(***************************************************************************)
\* what a size key can hold: nothing (key missing), None, an integer, a
\* numeric string, a display string, a float that is no number
RawSizes ==
  { Absent, PyNone, PyInt(3), PyStr(<<"1", "2">>),
    PyStr(<<"1", ".", "5", " ", "G", "B">>), PyNaN }

RawDisplays == { <<>>, <<"1", " ", "K">> }

RawRecords ==
  { [Raw EXCEPT !.name = <<"a">>, !.Size = S, !.size = s, !.Size_Display = D,
                !.size_display = d, !.Category = C, !.category = c] :
      S \in RawSizes, s \in RawSizes, D \in RawDisplays, d \in RawDisplays,
      C \in {"", "Music"}, c \in {"", "Videos"} }

\* lines 152-187
NormalizeItem ==
  /\ norm.pc = "called"
  /\ norm' = IF NormalizeRaises(norm.item)
             THEN [norm EXCEPT !.pc = "raised"]
             ELSE [norm EXCEPT !.pc = "returned",
                               !.result = _normalize_item(norm.item)]
  /\ UNCHANGED not_norm

InitNorm ==
  /\ \E r \in RawRecords :
       norm = [pc |-> "called", item |-> r, result |-> _normalize_item(Raw)]
  /\ CompareIdle /\ ScanIdle /\ TabIdle
  /\ ProbeIdle /\ LoadIdle /\ EntryIdle /\ KeyedIdle /\ SortIdle /\ WorkersIdle

NextNorm == NormalizeItem

SpecNorm == InitNorm /\ [][NextNorm]_vars

\* the record spells its size key one way only
OneSizeKey(item) == item.Size.t = "absent" \/ item.size.t = "absent"

\* the size field of the record, whichever way it is spelt
GivenSize(item) == IF item.Size.t # "absent" THEN item.Size ELSE item.size

\* C17: _normalize_item never raises; the size it gives is the integer value
\* of the size field when there is one that converts to an integer and is
\* absent otherwise, size_display is the display string supplied, else the
\* decimal string of the size, else empty, and category is the one supplied,
\* else 'Other'.
C17_NormalizeItemIsTotal ==
  /\ norm.pc # "raised"
  /\ (norm.pc = "returned" /\ OneSizeKey(norm.item)) =>
       LET g == GivenSize(norm.item)
           expected == IF g.t = "int" THEN PyInt(g.n)
                       ELSE IF g.t = "str" /\ IntOfStr(g.s).ok
                            THEN PyInt(IntOfStr(g.s).n)
                            ELSE PyNone
           display == OrStr(norm.item.Size_Display, norm.item.size_display)
       IN  /\ norm.result.size = expected
           /\ norm.result.size_display =
                IF display # <<>> THEN display
                ELSE IF expected.t = "int" THEN StrOfInt(expected.n)
                ELSE <<>>
           /\ norm.result.category =
                IF norm.item.Category # "" THEN norm.item.Category
                ELSE IF norm.item.category # "" THEN norm.item.category
                ELSE "Other"

(***************************************************************************)
(* Two calls of the core in separate threads                               *)
(***************************************************************************)
\* most files under the root a worker scans
MaxWorkerFiles == 2

Workers == {1, 2}

WorkerFiles == {FileAMp4, FileD}

\* what a worker is asked to do: scan a root, where stat() of each file works
\* or raises, or compare two lists. Hashing is off, as in main.py line 252,
\* and the probe finds no duration.
WorkerJobs ==
  {[kind |-> "scan", files |-> f, stat_ok |-> e, l |-> <<>>, r |-> <<>>] :
     f \in SeqsUpTo(WorkerFiles, MaxWorkerFiles),
     e \in SeqsUpTo(BOOLEAN, MaxWorkerFiles)}
  \cup {[kind |-> "compare", files |-> <<>>, stat_ok |-> <<>>, l |-> l, r |-> r] :
          l \in {<<>>, <<ItemA1>>, <<ItemA4k2, ItemB>>},
          r \in {<<>>, <<ItemADisp>>, <<ItemB, ItemA1>>}}

\* the list every worker appends to is the first worker's
ItemsListShared(w) == workers[1].items

\* line 102: items = [] is a local of the call
ItemsList(w) == workers[w].items

\* lines 102-113
WorkerBegin ==
  \E w \in Workers :
    /\ workers[w].pc = "start" /\ workers[w].job.kind = "scan"
    /\ workers' = [workers EXCEPT
         ![w].pc = IF Len(workers[w].job.files) = 0 THEN "returned" ELSE "loop",
         ![w].items = <<>>, ![w].count = 0, ![w].returned = <<>>]
    /\ UNCHANGED not_workers

\* lines 115-153
WorkerProcessFile ==
  \E w \in Workers :
    /\ workers[w].pc = "loop"
    /\ workers[w].count < Len(workers[w].job.files)
    /\ LET n == workers[w].count + 1
       IN  workers' = [workers EXCEPT
             ![w].count = n,
             ![w].items = IF workers[w].job.stat_ok[n]
                          THEN Append(ItemsList(w),
                                      ItemOf(workers[w].job.files[n], n, DurNone))
                          ELSE ItemsList(w)]
    /\ UNCHANGED not_workers

\* line 155
WorkerReturn ==
  \E w \in Workers :
    /\ workers[w].pc = "loop"
    /\ workers[w].count = Len(workers[w].job.files)
    /\ workers' = [workers EXCEPT ![w].pc = "returned",
                                  ![w].returned = ItemsList(w)]
    /\ UNCHANGED not_workers

\* compare.py 208-258
WorkerCompare ==
  \E w \in Workers :
    /\ workers[w].pc = "start" /\ workers[w].job.kind = "compare"
    /\ workers' = [workers EXCEPT
         ![w].pc = "returned",
         ![w].returned = _compare_lists(workers[w].job.l, workers[w].job.r)]
    /\ UNCHANGED not_workers

InitWorkers ==
  /\ CompareIdle /\ ScanIdle /\ TabIdle
  /\ ProbeIdle /\ LoadIdle /\ EntryIdle /\ KeyedIdle /\ SortIdle /\ NormIdle
  /\ \E j \in [Workers -> WorkerJobs] :
       /\ \A w \in Workers : Len(j[w].stat_ok) = Len(j[w].files)
       /\ workers = [w \in Workers |->
                       [pc |-> "start", job |-> j[w], count |-> 0,
                        items |-> <<>>, returned |-> <<>>]]

NextWorkers ==
  \/ WorkerBegin
  \/ WorkerProcessFile
  \/ WorkerReturn
  \/ WorkerCompare

SpecWorkers == InitWorkers /\ [][NextWorkers]_vars

\* what a scan of these files returns when it runs alone
RECURSIVE ScanAlone(_, _, _)
ScanAlone(fs, stat_ok, n) ==
  IF n = 0 THEN <<>>
  ELSE IF stat_ok[n] THEN Append(ScanAlone(fs, stat_ok, n - 1),
                                 ItemOf(fs[n], n, DurNone))
  ELSE ScanAlone(fs, stat_ok, n - 1)

ResultAlone(job) ==
  IF job.kind = "scan" THEN ScanAlone(job.files, job.stat_ok, Len(job.files))
  ELSE _compare_lists(job.l, job.r)

\* C18: whatever the interleaving of the steps of two concurrent scan or
\* compare calls, each call returns what it returns when it runs alone.
C18_ConcurrentCallsAreIndependent ==
  workers # NotCalled =>
    \A w \in Workers :
      workers[w].pc = "returned" =>
        workers[w].returned = ResultAlone(workers[w].job)

\* two scans ran interleaved: the second returned its two records while the
\* first was still in its loop with a record of its own
C18_Witness ==
  /\ workers # NotCalled
  /\ workers[2].pc = "returned" /\ Len(workers[2].returned) = 2
  /\ workers[1].pc = "loop" /\ Len(workers[1].items) = 1
  /\ workers[1].count < Len(workers[1].job.files)

(***************************************************************************)
(* Scanner.scan_folder: when the duration probe runs                       *)
(***************************************************************************)
\* the category scan_folder computes for the i-th enumerated file
CategoryOfFile(i) == _categorize_by_ext(StrLower(Suffix(files[i].name)))

ProbedCategories == {"Videos", "Music"}

\* C19: in a scan the probe runs for a file exactly when its category is
\* Videos or Music; every record of another category has duration none and
\* duration_display 'N/A'; an exception in the probe step of a Videos or Music
\* file leaves a record with duration none and duration_display 'Error'.
C19_ProbeOnlyForVideosAndMusic ==
  /\ \A i \in 1..Len(outcomes) :
       outcomes[i].raised # "stat" =>
         (outcomes[i].probe # "skipped" <=> CategoryOfFile(i) \in ProbedCategories)
  /\ \A k \in 1..Len(items) :
       items[k].category \notin ProbedCategories =>
         /\ items[k].duration = DurNone
         /\ items[k].duration_display = <<"N", "/", "A">>
  /\ \A i \in 1..Len(outcomes) :
       (outcomes[i].probe = "error" /\ outcomes[i].raised = "none"
        /\ CategoryOfFile(i) \in ProbedCategories) =>
         \E k \in 1..Len(items) :
           /\ items[k].path = i
           /\ items[k].duration = DurNone
           /\ items[k].duration_display = <<"E", "r", "r", "o", "r">>

(***************************************************************************)
(* The percent values an entry point passes to its callback                *)
(***************************************************************************)
\* the call is over: it returned or raised
EntryOver == entry.pc \in {"returned", "raised"}

Reports ==
  entry.pc # "idle" /\ entry.cb /\ entry.op \in {"folders", "scanfile_vs_folder"}

NonDecreasing(q) == \A i \in 1..(Len(q) - 1) : q[i] <= q[i + 1]

CallsAt100(q) == Cardinality({i \in 1..Len(q) : q[i] = 100})

\* C20 as stated: the percent values of compare_folders and
\* compare_scanfile_vs_folder never decrease, stay within 0..100, start at 0
\* and end with the only call at 100.
C20_ProgressEndsWithTheOnlyCallAt100 ==
  Reports =>
    /\ NonDecreasing(entry.progress)
    /\ \A i \in 1..Len(entry.progress) : entry.progress[i] \in 0..100
    /\ entry.progress # <<>> => entry.progress[1] = 0
    /\ EntryOver =>
         /\ entry.progress # <<>>
         /\ entry.progress[Len(entry.progress)] = 100
         /\ CallsAt100(entry.progress) = 1

\* C20 amended: the percent values never decrease, stay within 0..100, start
\* at 0 and end with the final marker at 100; there is one call per marker and
\* per scanned file, and the last file of the last scan reports 100 too, so
\* 100 is passed twice unless the last-scanned folder is empty.
C20_ProgressNonDecreasingEndsAt100 ==
  Reports =>
    /\ NonDecreasing(entry.progress)
    /\ \A i \in 1..Len(entry.progress) : entry.progress[i] \in 0..100
    /\ entry.progress # <<>> => entry.progress[1] = 0
    /\ EntryOver =>
         /\ Len(entry.progress) = 3 + Len(entry.root_a) + Len(entry.root_b)
         /\ entry.progress[Len(entry.progress)] = 100
         /\ CallsAt100(entry.progress) = IF entry.root_b = <<>> THEN 1 ELSE 2

\* compare_folders over two folders of two files each reported
\* 0, 25, 50, 50, 75, 100, 100
C20_Witness ==
  /\ Reports /\ EntryOver /\ entry.op = "folders"
  /\ entry.progress = <<0, 25, 50, 50, 75, 100, 100>>

(***************************************************************************)
(* _compare_lists with its two arguments exchanged                         *)
(***************************************************************************)
MirrorStatus(s) ==
  IF s = "only_left" THEN "only_right"
  ELSE IF s = "only_right" THEN "only_left"
  ELSE s

\* an entry with the sides exchanged and the category kept
Mirror(e) ==
  [e EXCEPT !.status = MirrorStatus(e.status),
            !.left_size = e.right_size, !.right_size = e.left_size]

\* C21 as stated: comparing right with left gives the entries of comparing
\* left with right in the same order, with only_left and only_right exchanged,
\* the two size displays exchanged, and the same status and category otherwise.
C21_SwapMirrorsResult ==
  cmp_pc = "done" =>
    _compare_lists(right, left) = [i \in 1..Len(results) |-> Mirror(results[i])]

\* C21 amended: comparing right with left gives the same keys in the same
\* order with only_left and only_right exchanged, both_same kept and the size
\* displays exchanged; a one-sided entry keeps its category, and an entry of a
\* key on both sides carries the category of the first record of the side that
\* is then the left one.
C21_SwapMirrorsAllButBothCategory ==
  cmp_pc = "done" =>
    LET swapped == _compare_lists(right, left)
    IN  /\ Len(swapped) = Len(results)
        /\ \A i \in 1..Len(results) :
             /\ [swapped[i] EXCEPT !.category = results[i].category]
                  = Mirror(results[i])
             /\ IF results[i].file \in BothKeys
                THEN /\ results[i].category
                          = Representative(left, results[i].file).category
                     /\ swapped[i].category
                          = Representative(right, results[i].file).category
                ELSE swapped[i].category = results[i].category

\* a key on both sides whose records disagree on the category, next to a key
\* on one side only
C21_Witness ==
  /\ cmp_pc = "done"
  /\ \E i \in 1..Len(results), j \in 1..Len(results) :
       /\ results[i].file \in BothKeys
       /\ Representative(left, results[i].file).category
            # Representative(right, results[i].file).category
       /\ results[j].status \in {"only_left", "only_right"}
       /\ results[j].left_size # results[j].right_size

(***************************************************************************)
(* main.py: start_scan, the worker thread and the callbacks it schedules   *)
(***************************************************************************)
\* settings.py DEFAULTS: the media tabs
TabNames == {"Videos", "Music", "Photos", "Other"}

\* i[key] for a record: a key the record lacks raises KeyError
HasKey(it, key) == key \in DOMAIN it

\* line 257: [i for i in items if i["Category"] == category]
FilterRaises(its) == \E i \in 1..Len(its) : ~HasKey(its[i], "Category")

FilterByCategory(its, category) ==
  SelectSeq(its, LAMBDA it : HasKey(it, "Category") /\ it["Category"] = category)

\* lines 254-262: the worker after scan_folder has returned: store the items,
\* filter them by the tab, schedule the three callbacks
WorkerFinish ==
  /\ tab.pc = "scanning"
  /\ scan_pc = "returned"
  /\ tab' = IF FilterRaises(returned)
            THEN [tab EXCEPT !.pc = "raised", !.last_scan = returned]
            ELSE [tab EXCEPT !.pc = "scheduled", !.last_scan = returned,
                             !.shown = FilterByCategory(returned, tab.category)]
  /\ UNCHANGED not_tab

\* lines 260-262 on the main thread: display_results, the status, the bar
MainRunsScheduled ==
  /\ tab.pc = "scheduled"
  /\ tab' = [tab EXCEPT !.pc = "done", !.status = "Scan complete"]
  /\ UNCHANGED not_tab

\* lines 242-253: a folder was chosen and the worker thread started
InitTab ==
  /\ files \in SeqsUpTo(ScanFiles, MaxFiles)
  /\ include_hash = FALSE
  /\ has_callback = TRUE
  /\ scan_pc = "start"
  /\ count = 0
  /\ items = <<>>
  /\ outcomes = <<>>
  /\ calls = <<>>
  /\ returned = <<>>
  /\ \E c \in TabNames :
       tab = [pc |-> "scanning", category |-> c, last_scan |-> <<>>,
              shown |-> <<>>, status |-> "Scanning"]
  /\ CompareIdle
  /\ ProbeIdle /\ LoadIdle /\ EntryIdle /\ KeyedIdle /\ SortIdle /\ NormIdle
  /\ WorkersIdle

NextTab ==
  \/ ScanBegin
  \/ ProcessFile
  \/ ScanReturn
  \/ WorkerFinish
  \/ MainRunsScheduled

\* the worker thread and the main loop keep running
SpecTab == InitTab /\ [][NextTab]_vars /\ WF_vars(NextTab)

\* the scanned records of the tab's category
OfCategory(its, category) == SelectSeq(its, LAMBDA it : it.category = category)

\* C22: a scan started from a media tab over a folder with at least one file
\* never ends its worker with an error, and leads to the scanned items stored
\* in last_scan, display_results scheduled with those of the tab's category,
\* and the status 'Scan complete'.
C22_TabScanEndsInDisplay ==
  /\ [](Len(files) > 0 => tab.pc # "raised")
  /\ (Len(files) > 0) ~>
       /\ tab.pc = "done"
       /\ tab.last_scan = returned
       /\ tab.shown = OfCategory(returned, tab.category)
       /\ tab.status = "Scan complete"

====
